---------------------------- MODULE Spec2Model ----------------------------
(***************************************************************************)
(* The timed download gate (DownloadComponent): a 30 second countdown      *)
(* driven by a React effect, followed by delivery attempts (startDownload) *)
(* that ask the storage collaborator for a signed URL and run a cascade of *)
(* three delivery strategies.                                              *)
(*                                                                         *)
(* Text is modelled as a sequence of one-character strings, so that the    *)
(* split / replace / trim calls of the source are computed, not assumed.   *)
(***************************************************************************)
EXTENDS Naturals, Integers, Sequences, FiniteSets, TLC

(***************************************************************************)
(* Program constants and model bounds                                      *)
(***************************************************************************)
\* useState(30): the start value of the countdown
StartValue == 30

\* createSignedUrl(filename, 3600)
SignedUrlTtl == 3600

\* the largest number of delivery attempts of one presentation that is explored
MaxAttempts == 3

\* the same, where progress is checked under fairness
MaxLiveAttempts == 2

\* the longest title, uploaded file name and stored file reference that are
\* enumerated where the file names are checked
MaxTitleLen == 3
MaxNameLen == 3
MaxRefLen == 3

(***************************************************************************)
(* Characters and the string helpers of the filename derivation            *)
(***************************************************************************)
\* a-z, A-Z, 0-9 of the character class [a-zA-Z0-9\s\-_]
AlphaNum ==
    {"a","b","c","d","e","f","g","h","i","j","k","l","m",
     "n","o","p","q","r","s","t","u","v","w","x","y","z",
     "A","B","C","D","E","F","G","H","I","J","K","L","M",
     "N","O","P","Q","R","S","T","U","V","W","X","Y","Z",
     "0","1","2","3","4","5","6","7","8","9"}

\* \s of the regular expressions, which is also what trim() strips
Whitespace == {" ", "\t", "\n"}

\* the characters /[^a-zA-Z0-9\s\-_]/g leaves in place
KeptChar(c) == c \in AlphaNum \cup Whitespace \cup {"-", "_"}

Range(s) == {s[i] : i \in 1..Len(s)}

\* s.split(sep).pop(): the part of s after the last sep (all of s without one)
RECURSIVE SplitPop(_, _)
SplitPop(s, sep) ==
    IF s = <<>> THEN <<>>
    ELSE LET rest == SplitPop(Tail(s), sep)
         IN  IF sep \in Range(Tail(s)) THEN rest
             ELSE IF Head(s) = sep THEN Tail(s)
             ELSE s

\* file_url.split('/').pop() || file_url
Basename(file_url) ==
    LET last == SplitPop(file_url, "/")
    IN  IF last # <<>> THEN last ELSE file_url

\* (mutant) the part after the first '.' is taken: filename.split('.')[1]
FileExtensionFirstDot(filename) ==
    IF "." \in Range(filename)
    THEN LET k == CHOOSE j \in 1..Len(filename) :
                    /\ filename[j] = "."
                    /\ \A m \in 1..(j - 1) : filename[m] # "."
             rest == SubSeq(filename, k + 1, Len(filename))
             stop == IF "." \in Range(rest)
                     THEN (CHOOSE j \in 1..Len(rest) :
                              /\ rest[j] = "."
                              /\ \A m \in 1..(j - 1) : rest[m] # ".") - 1
                     ELSE Len(rest)
         IN  <<".">> \o SubSeq(rest, 1, stop)
    ELSE <<".", "z", "i", "p">>

\* filename.includes('.') ? '.' + filename.split('.').pop() : '.zip'
FileExtension(filename) ==
    IF "." \in Range(filename)
    THEN <<".">> \o SplitPop(filename, ".")
    ELSE <<".", "z", "i", "p">>

\* .replace(/[^a-zA-Z0-9\s\-_]/g, '')
RemoveSpecial(s) == SelectSeq(s, KeptChar)

\* .replace(/\s+/g, '_'): every maximal run of whitespace becomes one '_'
RECURSIVE ReplaceWhitespaceRuns(_)
ReplaceWhitespaceRuns(s) ==
    IF s = <<>> THEN <<>>
    ELSE IF Head(s) \in Whitespace
         THEN IF Len(s) > 1 /\ s[2] \in Whitespace
              THEN ReplaceWhitespaceRuns(Tail(s))
              ELSE <<"_">> \o ReplaceWhitespaceRuns(Tail(s))
         ELSE <<Head(s)>> \o ReplaceWhitespaceRuns(Tail(s))

RECURSIVE TrimStart(_)
TrimStart(s) ==
    IF s # <<>> /\ Head(s) \in Whitespace THEN TrimStart(Tail(s)) ELSE s

RECURSIVE TrimEnd(_)
TrimEnd(s) ==
    IF s # <<>> /\ s[Len(s)] \in Whitespace
    THEN TrimEnd(SubSeq(s, 1, Len(s) - 1))
    ELSE s

\* String.prototype.trim
Trim(s) == TrimEnd(TrimStart(s))

\* product.title.replace(...).replace(...).trim(), in the order of the source
SanitizedTitle(title) == Trim(ReplaceWhitespaceRuns(RemoveSpecial(title)))

\* `${sanitizedTitle}${fileExtension}`
DownloadFilename(title, file_url) ==
    SanitizedTitle(title) \o FileExtension(Basename(file_url))


(***************************************************************************)
(* Inputs: the products a presentation may show, and what the environment  *)
(* (storage collaborator, network, browser) may answer                     *)
(***************************************************************************)
TitlePlain  == <<"M", "y", " ", "A", "p", "p", "!">>
TitleSpaced == <<" ", "a", " ", " ", "b">>

\* product: { title, price, file_url? }; has_file_url is FALSE for undefined
Products ==
    { [title |-> TitlePlain,  price |-> 0, has_file_url |-> TRUE,
       file_url |-> <<"f", "/", "a", "1", ".", "z", "i", "p">>],
      [title |-> TitleSpaced, price |-> 5, has_file_url |-> TRUE,
       file_url |-> <<"x">>],
      [title |-> TitlePlain,  price |-> 5, has_file_url |-> FALSE,
       file_url |-> <<>>],
      [title |-> TitleSpaced, price |-> 0, has_file_url |-> TRUE,
       file_url |-> <<>>] }

\* error.message of the storage collaborator
StorageErrorMessages == {"Object not found"}

\* { data, error } of createSignedUrl
StorageResults ==
    { [error |-> TRUE, message |-> m, hasUrl |-> FALSE] : m \in StorageErrorMessages }
    \cup { [error |-> FALSE, message |-> "", hasUrl |-> b] : b \in BOOLEAN }

\* fetch(): rejected, resolved with !response.ok, resolved with response.ok
FetchResults == {"reject", "nonok", "ok"}

\* response.blob(): rejected or resolved
BlobResults == {"reject", "ok"}

\* what the two synchronous fallbacks do: each completes or throws an Error
FallbackResults == [s2Throws : BOOLEAN, s3Throws : BOOLEAN]

\* the strings over chars of length at most n
Strings(chars, n) == UNION {[1..k -> chars] : k \in 0..n}

\* the examples of the specification
TitleCoolApp == <<"M", "y", " ", "C", "o", "o", "l", " ", "A", "p", "p", "!">>
RefAbc123Zip == <<"a", "b", "c", "1", "2", "3", ".", "z", "i", "p">>
TitleMultiSpace ==
    <<" ", " ", "m", "u", "l", "t", "i", " ", " ", " ", "s", "p", "a", "c", "e",
      " ", " ", "n", "a", "m", "e">>
RefX == <<"x">>

\* products rows with any short title and file reference, and the examples
StoredProducts ==
    { [title |-> t, price |-> 0, has_file_url |-> TRUE, file_url |-> f] :
        t \in Strings({"a", " "}, MaxTitleLen),
        f \in Strings({"a", ".", "/"}, MaxRefLen) }
    \cup { [title |-> TitleCoolApp, price |-> 5, has_file_url |-> TRUE,
            file_url |-> RefAbc123Zip],
           [title |-> TitleMultiSpace, price |-> 5, has_file_url |-> TRUE,
            file_url |-> RefX] }

(***************************************************************************)
(* State                                                                   *)
(***************************************************************************)
VARIABLES
    product,           \* props.product of this presentation
    countdown,         \* useState(30)
    isDownloading,     \* useState(false)
    downloadComplete,  \* useState(false)
    mounted,           \* the component is presented (not yet closed)
    timer,             \* a setTimeout of the countdown effect is pending
    attempts,          \* the calls of startDownload, in call order
    storageCalls,      \* the createSignedUrl calls made, in call order
    urlsIssued,        \* number of signed URLs the collaborator has issued
    upload             \* the admin upload form and what it has stored

vars == <<product, countdown, isDownloading, downloadComplete, mounted, timer,
          attempts, storageCalls, urlsIssued, upload>>

\* the mutable state as one record, so that handlers compose as functions
Cur ==
    [countdown |-> countdown, isDownloading |-> isDownloading,
     downloadComplete |-> downloadComplete, mounted |-> mounted,
     timer |-> timer, attempts |-> attempts, storageCalls |-> storageCalls,
     urlsIssued |-> urlsIssued]

\* the component's state becomes n
SetComponent(n) ==
    /\ countdown' = n.countdown
    /\ isDownloading' = n.isDownloading
    /\ downloadComplete' = n.downloadComplete
    /\ mounted' = n.mounted
    /\ timer' = n.timer
    /\ attempts' = n.attempts
    /\ storageCalls' = n.storageCalls
    /\ urlsIssued' = n.urlsIssued

\* commit a handler's result; no more than MaxAttempts attempts are explored
Set(n) ==
    /\ Len(n.attempts) <= MaxAttempts
    /\ SetComponent(n)
    /\ UNCHANGED <<product, upload>>

\* React drops a state update of a component that is no longer mounted
SetCountdown(s, v) == IF s.mounted THEN [s EXCEPT !.countdown = v] ELSE s
SetIsDownloading(s, v) == IF s.mounted THEN [s EXCEPT !.isDownloading = v] ELSE s
SetDownloadComplete(s, v) == IF s.mounted THEN [s EXCEPT !.downloadComplete = v] ELSE s

(***************************************************************************)
(* startDownload: one delivery attempt                                     *)
(*                                                                         *)
(* An attempt is the record of one call: pc is the await it is suspended   *)
(* at ("issuing": createSignedUrl, "fetching": fetch, "blob":              *)
(* response.blob()) or "done"; strategies lists the cascade strategies it  *)
(* has started, each with the URL and save name it used; toasts lists the  *)
(* notifications it has shown.                                             *)
(***************************************************************************)
NoName == <<>>

NewAttempt(trigger, remaining) ==
    [trigger |-> trigger, remainingAtStart |-> remaining, pc |-> "running",
     filename |-> <<>>, downloadFilename |-> <<>>,
     issuance |-> "none", signedUrl |-> 0, fetchResult |-> "none",
     strategies |-> <<>>, toasts |-> <<>>, objectUrl |-> "none", revokes |-> 0]

\* new Error(message)
Error(message) == [isError |-> TRUE, message |-> message]

\* error instanceof Error ? error.message : "Unable to download the file. ..."
ErrorDescription(e) ==
    IF e.isError THEN e.message
    ELSE "Unable to download the file. Please contact support."

\* toast({ title, description, variant }) shown by attempt i; the success
\* descriptions are kept without the product title they start with
Toast(s, i, title, description, variant) ==
    [s EXCEPT !.attempts[i].toasts =
        Append(@, [title |-> title, description |-> description,
                   variant |-> variant])]

\* (mutant) there is no finally block: isDownloading is left as it is
FinallyMissing(s, i) == [s EXCEPT !.attempts[i].pc = "done"]

\* finally { setIsDownloading(false) }: the call has returned
Finally(s, i) ==
    SetIsDownloading([s EXCEPT !.attempts[i].pc = "done"], FALSE)

\* (mutant) the catch block logs the error and shows no toast
CatchOuterSilent(s, i, e) == Finally(s, i)

\* catch (error) { toast({ title: "Download Failed", ... }) } finally { ... }
CatchOuter(s, i, e) ==
    Finally(Toast(s, i, "Download Failed", ErrorDescription(e), "destructive"), i)

\* (mutant) startDownload does not look at product.file_url
FileUrlAssumed(p) == TRUE

\* if (product.file_url): undefined and the empty string are both falsy
FileUrlPresent(p) == p.has_file_url /\ p.file_url # <<>>

\* (mutant) the signed URL of an earlier attempt is kept and used again: the
\* storage collaborator is asked only while no attempt has obtained one
StartDownloadCached(s, trigger) ==
    LET i  == Len(s.attempts) + 1
        s1 == SetIsDownloading(
                [s EXCEPT !.attempts = Append(@, NewAttempt(trigger, s.countdown))],
                TRUE)
        filename == Basename(product.file_url)
        s2 == [s1 EXCEPT
                !.attempts[i].filename = filename,
                !.attempts[i].downloadFilename =
                    DownloadFilename(product.title, product.file_url)]
        had == {k \in 1..Len(s.attempts) : s.attempts[k].signedUrl # 0}
    IN  IF ~FileUrlPresent(product)
        THEN CatchOuter(s1, i, Error("No file available for download"))
        ELSE IF had # {}
        THEN [s2 EXCEPT
                !.attempts[i].issuance = "url",
                !.attempts[i].signedUrl = s.attempts[CHOOSE k \in had : TRUE].signedUrl,
                !.attempts[i].pc = "fetching",
                !.attempts[i].strategies =
                    <<[n |-> 1, url |-> s.attempts[CHOOSE k \in had : TRUE].signedUrl,
                       name |-> s2.attempts[i].downloadFilename,
                       result |-> "active"]>>]
        ELSE [s2 EXCEPT
                !.attempts[i].pc = "issuing",
                !.storageCalls =
                    Append(@, [attempt |-> i, bucket |-> "product-files",
                               path |-> filename, expiresIn |-> SignedUrlTtl])]

\* startDownload up to its first await: setIsDownloading(true), then either
\* the createSignedUrl call or, without a file_url, the throw that ends it
StartDownload(s, trigger) ==
    LET i  == Len(s.attempts) + 1
        s1 == SetIsDownloading(
                [s EXCEPT !.attempts = Append(@, NewAttempt(trigger, s.countdown))],
                TRUE)
        filename == Basename(product.file_url)
    IN  IF FileUrlPresent(product)
        THEN [s1 EXCEPT
                !.attempts[i].filename = filename,
                !.attempts[i].downloadFilename =
                    DownloadFilename(product.title, product.file_url),
                !.attempts[i].pc = "issuing",
                !.storageCalls =
                    Append(@, [attempt |-> i, bucket |-> "product-files",
                               path |-> filename, expiresIn |-> SignedUrlTtl])]
        ELSE CatchOuter(s1, i, Error("No file available for download"))

\* strategy n of attempt i is started with this URL and suggested save name
BeginStrategy(s, i, n, name) ==
    [s EXCEPT !.attempts[i].strategies =
        Append(@, [n |-> n, url |-> s.attempts[i].signedUrl, name |-> name,
                   result |-> "active"])]

\* the strategy attempt i started last has settled
EndStrategy(s, i, result) ==
    [s EXCEPT !.attempts[i].strategies[Len(s.attempts[i].strategies)].result =
        result]

\* setDownloadComplete(true); toast({ title, ... }); then the finally block
Succeed(s, i, title, description) ==
    Finally(Toast(SetDownloadComplete(s, TRUE), i, title, description, "default"), i)

\* (mutant) the error of createSignedUrl is not looked at
IssuanceErrorIgnored(res) == FALSE

\* if (error) { throw new Error(`Storage error: ${error.message}`) }
IssuanceError(res) == res.error

\* the continuation of `await createSignedUrl(...)`: throw on an error, start
\* strategy 1 (the fetch) on a signed URL, throw when there is neither
OnSignedUrl(s, i, res) ==
    LET s1 == [s EXCEPT !.attempts[i].issuance =
                  IF res.error THEN "error"
                  ELSE IF res.hasUrl THEN "url" ELSE "nodata"]
    IN  IF IssuanceError(res)
        THEN CatchOuter(s1, i, Error("Storage error: " \o res.message))
        ELSE IF res.hasUrl
        THEN BeginStrategy(
                [s1 EXCEPT !.urlsIssued = @ + 1,
                           !.attempts[i].signedUrl = s.urlsIssued + 1,
                           !.attempts[i].pc = "fetching"],
                i, 1, s.attempts[i].downloadFilename)
        ELSE CatchOuter(s1, i, Error("Unable to create secure download link"))

\* (mutant) there is no catch (directError): a throw of strategy 2 reaches the
\* outer catch
FallbackRethrows(s, i, fb) ==
    LET s2 == BeginStrategy(s, i, 2, s.attempts[i].downloadFilename)
    IN  IF ~fb.s2Throws
        THEN Succeed(EndStrategy(s2, i, "ok"), i,
                     "Download Started", "download has been initiated")
        ELSE CatchOuter(EndStrategy(s2, i, "failed"), i, Error("click failed"))

\* catch (fetchError): strategy 2, the anchor click on the signed URL, and in
\* its catch (directError) strategy 3, window.location.href = signedUrl
Fallback(s, i, fb) ==
    LET s2 == BeginStrategy(s, i, 2, s.attempts[i].downloadFilename)
    IN  IF ~fb.s2Throws
        THEN Succeed(EndStrategy(s2, i, "ok"), i,
                     "Download Started", "download has been initiated")
        ELSE LET s3 == BeginStrategy(EndStrategy(s2, i, "failed"), i, 3, NoName)
             IN  IF ~fb.s3Throws
                 THEN Succeed(EndStrategy(s3, i, "ok"), i,
                              "Download Started", "download has been initiated")
                 ELSE CatchOuter(EndStrategy(s3, i, "failed"), i,
                                 Error("navigation failed"))

\* (mutant) response.ok is not looked at: only a rejected fetch fails
FetchRejected(r) == r = "reject"

\* fetch rejected, or if (!response.ok) throw new Error(`Fetch failed: ...`)
FetchFailed(r) == r = "reject" \/ r = "nonok"

\* the continuation of `await fetch(...)`
OnFetch(s, i, r, fb) ==
    LET s1 == [s EXCEPT !.attempts[i].fetchResult = r]
    IN  IF FetchFailed(r)
        THEN Fallback(EndStrategy(s1, i, "failed"), i, fb)
        ELSE [s1 EXCEPT !.attempts[i].pc = "blob"]

\* response.blob() rejected
BlobFailed(r) == r = "reject"

\* (mutant) control falls into the fallbacks after the blob was saved as well
OnBlobThenFallback(s, i, r, fb) ==
    IF BlobFailed(r)
    THEN Fallback(EndStrategy(s, i, "failed"), i, fb)
    ELSE Fallback(EndStrategy([s EXCEPT !.attempts[i].objectUrl = "live"], i, "ok"),
                  i, fb)

\* (mutant) the link is removed and the object URL revoked right after the
\* click, in the same step
OnBlobSyncCleanup(s, i, r, fb) ==
    IF BlobFailed(r)
    THEN Fallback(EndStrategy(s, i, "failed"), i, fb)
    ELSE Succeed(EndStrategy([s EXCEPT !.attempts[i].objectUrl = "revoked",
                                        !.attempts[i].revokes = 1], i, "ok"),
                 i, "Download Complete", "has been downloaded successfully")

\* the continuation of `await response.blob()`: createObjectURL, the hidden
\* link's click, setTimeout(cleanup, 100), setDownloadComplete(true), toast
OnBlob(s, i, r, fb) ==
    IF BlobFailed(r)
    THEN Fallback(EndStrategy(s, i, "failed"), i, fb)
    ELSE Succeed(EndStrategy([s EXCEPT !.attempts[i].objectUrl = "live"], i, "ok"),
                 i, "Download Complete", "has been downloaded successfully")

\* the deferred cleanup: removeChild(link); revokeObjectURL(downloadUrl)
OnCleanup(s, i) ==
    [s EXCEPT !.attempts[i].objectUrl = "revoked", !.attempts[i].revokes = @ + 1]

(***************************************************************************)
(* The countdown effect: useEffect(..., [countdown, downloadComplete])      *)
(***************************************************************************)
\* () => setCountdown(countdown - 1), with the countdown the effect saw
TimerCallback(c) == c - 1

\* (mutant) the timer is armed at zero as well: countdown >= 0
EffectTicksAtZero(s) ==
    IF s.countdown >= 0 /\ ~s.downloadComplete
    THEN [s EXCEPT !.timer = TRUE]
    ELSE s

\* (mutant) the zero branch does not look at downloadComplete
EffectRestartsAtZero(s) ==
    IF s.countdown > 0 /\ ~s.downloadComplete
    THEN [s EXCEPT !.timer = TRUE]
    ELSE IF s.countdown = 0
         THEN StartDownload(s, "auto")
         ELSE s

\* the effect body: arm the one second timer, or start the download at zero
Effect(s) ==
    IF s.countdown > 0 /\ ~s.downloadComplete
    THEN [s EXCEPT !.timer = TRUE]
    ELSE IF s.countdown = 0 /\ ~s.downloadComplete
         THEN StartDownload(s, "auto")
         ELSE s

\* (mutant) the effect returns no cleanup: the timeout stays pending
EffectCleanupMissing(s) == s

\* (mutant) the cleanup also aborts the calls of startDownload in flight,
\* which then end without an outcome
EffectCleanupAborts(s) ==
    [s EXCEPT !.timer = FALSE,
              !.attempts = [k \in 1..Len(s.attempts) |->
                              IF s.attempts[k].pc # "done"
                              THEN [s.attempts[k] EXCEPT !.pc = "done"]
                              ELSE s.attempts[k]]]

\* return () => clearTimeout(timer)
EffectCleanup(s) == [s EXCEPT !.timer = FALSE]

\* the dependency list of the effect
EffectDeps(s) == <<s.countdown, s.downloadComplete>>

\* a handler has taken the state from old to new: the mounted component
\* renders again, and when a dependency changed the previous effect is
\* cleaned up and the effect runs again
Render(old, new) ==
    IF new.mounted /\ EffectDeps(new) # EffectDeps(old)
    THEN Effect(EffectCleanup(new))
    ELSE new

\* the parent's onClose handler removes the presentation: React unmounts the
\* component, which runs the cleanup of the effect
OnClose(s) == EffectCleanup([s EXCEPT !.mounted = FALSE])

\* (mutant) the "Download Again" button is rendered unconditionally
DownloadAgainAlwaysRendered(s) == TRUE

\* {downloadComplete && ( ... <Button onClick={startDownload}> ... )}
DownloadAgainRendered(s) == s.downloadComplete

(***************************************************************************)
(* ProductUploadForm: the admin form that stores the product file and      *)
(* inserts the products row the download component is later given          *)
(***************************************************************************)
\* supabase.storage.from(bucket).getPublicUrl(path).publicUrl, taken to be the
\* bucket's base URL, '/', and the object name
BucketBaseUrl == <<"h", ":", "/", "/", "s", "/", "p", "f">>
PublicUrl(path) == BucketBaseUrl \o <<"/">> \o path

\* (mutant) the custom name is used as typed, without the two replace calls
UploadFileNameRaw(name, customName) ==
    IF customName # <<>>
    THEN customName \o <<".">> \o SplitPop(name, ".")
    ELSE <<"0", ".", "5", ".">> \o SplitPop(name, ".")

\* uploadFile: fileName from file.name and customName; Math.random() stands
\* as 0.5 in the branch without a custom name
UploadFileName(name, customName) ==
    IF customName # <<>>
    THEN Trim(ReplaceWhitespaceRuns(RemoveSpecial(customName)))
             \o <<".">> \o SplitPop(name, ".")
    ELSE <<"0", ".", "5", ".">> \o SplitPop(name, ".")

\* the form as filled in: formData.title and productFile (hasFile is FALSE for
\* null); isFree is checked, so no price is asked for
Form(title, hasFile, fileName) ==
    [phase |-> "form", title |-> title, hasFile |-> hasFile,
     fileName |-> fileName, bucket |-> "", storedName |-> <<>>]

\* no form is part of this presentation
NoForm == Form(<<>>, FALSE, <<>>)

\* the products row exists; the download component is presented with it
Stored(f) == [f EXCEPT !.phase = "stored"]
Presented(f) == [f EXCEPT !.phase = "presented"]

\* no products row yet
NoProduct == [title |-> <<>>, price |-> 0, has_file_url |-> FALSE, file_url |-> <<>>]

\* handleSubmit past its title check: uploadFile(productFile, 'product-files',
\* formData.title) if there is a file, then the insert of the products row
\* with file_url: fileUrl || null and, isFree being checked, price 0
SubmittedForm(f) ==
    IF f.hasFile
    THEN [Stored(f) EXCEPT !.bucket = "product-files",
                           !.storedName = UploadFileName(f.fileName, f.title)]
    ELSE Stored(f)

InsertedProduct(f) ==
    LET fileUrl == IF f.hasFile THEN PublicUrl(SubmittedForm(f).storedName) ELSE <<>>
    IN  [title |-> f.title, price |-> 0,
         has_file_url |-> fileUrl # <<>>, file_url |-> fileUrl]

(***************************************************************************)
(* Initial state and actions                                               *)
(***************************************************************************)
\* the component is mounted with its useState defaults and the effect has
\* run once (countdown = 30 > 0: the first timer is armed)
Init ==
    /\ product \in Products
    /\ countdown = StartValue
    /\ isDownloading = FALSE
    /\ downloadComplete = FALSE
    /\ mounted = TRUE
    /\ timer = TRUE
    /\ attempts = <<>>
    /\ storageCalls = <<>>
    /\ urlsIssued = 0
    /\ upload = Presented(NoForm)

\* the pending timeout fires
Tick ==
    /\ timer
    /\ Set(Render(Cur, SetCountdown([Cur EXCEPT !.timer = FALSE],
                                    TimerCallback(countdown))))

\* the Close button
Close ==
    /\ mounted
    /\ Set(OnClose(Cur))

\* the "Download Again" button
RetryDownload ==
    /\ mounted
    /\ DownloadAgainRendered(Cur)
    /\ Set(Render(Cur, StartDownload(Cur, "manual")))

\* the storage collaborator answers the createSignedUrl call of attempt i
SignedUrlSettles ==
    \E i \in 1..Len(attempts), res \in StorageResults :
        /\ attempts[i].pc = "issuing"
        /\ Set(Render(Cur, OnSignedUrl(Cur, i, res)))

\* the fetch of attempt i settles
FetchSettles ==
    \E i \in 1..Len(attempts), r \in FetchResults, fb \in FallbackResults :
        /\ attempts[i].pc = "fetching"
        /\ Set(Render(Cur, OnFetch(Cur, i, r, fb)))

\* response.blob() of attempt i settles
BlobSettles ==
    \E i \in 1..Len(attempts), r \in BlobResults, fb \in FallbackResults :
        /\ attempts[i].pc = "blob"
        /\ Set(Render(Cur, OnBlob(Cur, i, r, fb)))

\* the 100 ms cleanup timeout of attempt i fires
CleanupTimer ==
    \E i \in 1..Len(attempts) :
        /\ attempts[i].objectUrl = "live"
        /\ Set(OnCleanup(Cur, i))

Next ==
    \/ Tick
    \/ Close
    \/ RetryDownload
    \/ SignedUrlSettles
    \/ FetchSettles
    \/ BlobSettles
    \/ CleanupTimer

Spec == Init /\ [][Next]_vars

(***************************************************************************)
(* From the upload form to the first delivery attempt                      *)
(***************************************************************************)
\* what the admin may have typed and chosen; a chosen file has a name, which
\* as the name of a file on disk holds no '/'
FormInputs ==
    { Form(t, TRUE, n) :
        t \in Strings({"a", " ", "!", "/"}, MaxTitleLen),
        n \in Strings({"a", "."}, MaxNameLen) \ {<<>>} }
    \cup { Form(t, FALSE, <<>>) : t \in Strings({"a", " ", "!", "/"}, MaxTitleLen) }

\* nothing is presented yet: either the form is filled in and no row exists,
\* or a products row exists that no form of this model has written
InitNames ==
    /\ countdown = StartValue
    /\ isDownloading = FALSE
    /\ downloadComplete = FALSE
    /\ mounted = FALSE
    /\ timer = FALSE
    /\ attempts = <<>>
    /\ storageCalls = <<>>
    /\ urlsIssued = 0
    /\ \/ upload \in FormInputs /\ product = NoProduct
       \/ upload = Stored(NoForm) /\ product \in StoredProducts

\* handleSubmit: without a title it returns at once; an error of the upload or
\* of the insert is caught and leaves no row
HandleSubmit ==
    /\ upload.phase = "form"
    /\ upload.title # <<>>
    /\ \E ok \in BOOLEAN :
        IF ok
        THEN /\ upload' = SubmittedForm(upload)
             /\ product' = InsertedProduct(upload)
             /\ UNCHANGED <<countdown, isDownloading, downloadComplete, mounted,
                            timer, attempts, storageCalls, urlsIssued>>
        ELSE UNCHANGED vars

\* the download component is mounted with the stored product: the useState
\* defaults, and the first run of the effect
Present ==
    /\ upload.phase = "stored"
    /\ upload' = Presented(upload)
    /\ SetComponent(Effect([Cur EXCEPT !.mounted = TRUE]))
    /\ UNCHANGED product

NextNames ==
    \/ HandleSubmit
    \/ Present
    \/ Tick

SpecNames == InitNames /\ [][NextNames]_vars

\* the browser runs every pending timeout, and (the premise of the progress
\* claims) every pending storage call, fetch and body read settles
RetryDownloadLive ==
    /\ Len(attempts) < MaxLiveAttempts
    /\ RetryDownload

NextLive ==
    \/ Tick
    \/ Close
    \/ RetryDownloadLive
    \/ SignedUrlSettles
    \/ FetchSettles
    \/ BlobSettles
    \/ CleanupTimer

SpecLive ==
    /\ Init
    /\ [][NextLive]_vars
    /\ WF_vars(Tick)
    /\ WF_vars(SignedUrlSettles)
    /\ WF_vars(FetchSettles)
    /\ WF_vars(BlobSettles)
    /\ WF_vars(CleanupTimer)

(***************************************************************************)
(* Properties                                                              *)
(***************************************************************************)
Attempts == 1..Len(attempts)

\* the number of attempts the effect started by itself
AutoCount(as) == Cardinality({i \in 1..Len(as) : as[i].trigger = "auto"})

\* C1: the gate cannot be skipped. No delivery attempt, automatic or by
\* "Download Again", starts while the countdown is above zero, and while it is
\* above zero the storage collaborator has not been called, for free and paid
\* products alike.
C1_GateCannotBeSkipped ==
    /\ \A i \in Attempts : attempts[i].remainingAtStart = 0
    /\ countdown > 0 => attempts = <<>> /\ storageCalls = <<>>

\* a paid product whose download was started again by hand
C1_Witness ==
    /\ product.price > 0
    /\ Len(attempts) >= 2
    /\ attempts[2].trigger = "manual"
    /\ Len(storageCalls) >= 2

\* C2: the countdown starts at 30 and stays within 0..30; a tick takes it down
\* by exactly one, no step takes it up, and no step changes it once a delivery
\* attempt has begun.
C2_CountdownInvariant ==
    /\ countdown = StartValue
    /\ [](countdown \in 0..StartValue)
    /\ [][/\ Tick => countdown' = countdown - 1
          /\ countdown' <= countdown
          /\ attempts # <<>> => countdown' = countdown]_vars

\* the countdown has run out and delivery was attempted more than once
C2_Witness ==
    /\ countdown = 0
    /\ Len(attempts) >= 2
    /\ \A i \in Attempts : attempts[i].pc = "done"

\* C3: the automatic trigger fires exactly once, in the step that takes the
\* countdown from 1 to 0, and never again: not after the automatic attempt
\* failed, and not after later "Download Again" attempts.
C3_AutoTriggerOnce ==
    /\ [](AutoCount(attempts) <= 1)
    /\ [][AutoCount(attempts') =
            IF countdown = 1 /\ countdown' = 0 THEN 1 ELSE AutoCount(attempts)]_vars

\* the automatic attempt has failed, with the countdown at zero and delivery
\* not completed, and the component is still presented
C3_Witness ==
    /\ mounted
    /\ countdown = 0
    /\ ~downloadComplete
    /\ ~isDownloading
    /\ Len(attempts) = 1
    /\ attempts[1].trigger = "auto"
    /\ attempts[1].pc = "done"
    /\ attempts[1].issuance = "error"

\* C4: closing cancels the pending timer. Once the presentation is closed no
\* timeout is pending, the countdown stops, and no delivery attempt and no
\* storage call is started; closed above zero, none was ever started.
C4_CloseCancelsTimer ==
    /\ [](~mounted => ~timer)
    /\ [](~mounted /\ countdown > 0 => attempts = <<>> /\ storageCalls = <<>>)
    /\ [][~mounted => /\ countdown' = countdown
                      /\ Len(attempts') = Len(attempts)
                      /\ storageCalls' = storageCalls]_vars

\* the presentation was closed in the middle of the countdown
C4_Witness ==
    /\ ~mounted
    /\ countdown > 0
    /\ countdown < StartValue

\* the outcome notifications
IsSuccess(toast) ==
    toast.variant = "default" /\ toast.title \in {"Download Complete", "Download Started"}
IsFailure(toast) ==
    toast.variant = "destructive" /\ toast.title = "Download Failed"

\* the number of createSignedUrl calls attempt i has made
StorageCallsOf(i) ==
    Cardinality({k \in 1..Len(storageCalls) : storageCalls[k].attempt = i})

\* C5: without a file reference (undefined, or the empty string) every delivery
\* attempt ends at once in the failure "No file available for download", with
\* no storage call and no cascade strategy.
C5_MissingFileFailsAtOnce ==
    (~product.has_file_url \/ product.file_url = <<>>) =>
        /\ storageCalls = <<>>
        /\ urlsIssued = 0
        /\ \A i \in Attempts :
            /\ attempts[i].pc = "done"
            /\ attempts[i].strategies = <<>>
            /\ attempts[i].toasts =
                 <<[title |-> "Download Failed",
                    description |-> "No file available for download",
                    variant |-> "destructive"]>>

\* a product without file_url whose automatic attempt has been made
C5_Witness ==
    /\ ~product.has_file_url
    /\ Len(attempts) = 1
    /\ attempts[1].pc = "done"

\* C6: an error of the storage collaborator ends the attempt: no strategy is
\* started, the attempt made its one createSignedUrl call only, and its single
\* outcome is the failure "Storage error: " followed by the collaborator's
\* message.
C6_IssuanceErrorIsTerminal ==
    \A i \in Attempts :
        attempts[i].issuance = "error" =>
            /\ attempts[i].pc = "done"
            /\ attempts[i].strategies = <<>>
            /\ attempts[i].signedUrl = 0
            /\ StorageCallsOf(i) = 1
            /\ Len(attempts[i].toasts) = 1
            /\ IsFailure(attempts[i].toasts[1])
            /\ attempts[i].toasts[1].description \in
                 {"Storage error: " \o m : m \in StorageErrorMessages}

\* a "Download Again" attempt that the storage collaborator answered with an
\* error
C6_Witness ==
    \E i \in Attempts :
        /\ attempts[i].trigger = "manual"
        /\ attempts[i].issuance = "error"

\* C7: the strategies of an attempt run in the order 1, 2, 3; every strategy
\* but the last started has failed, so none starts after a success or while
\* another is still active.
C7_CascadeInOrder ==
    \A i \in Attempts :
        LET L == attempts[i].strategies
        IN  /\ Len(L) <= 3
            /\ \A k \in 1..Len(L) :
                /\ L[k].n = k
                /\ k < Len(L) => L[k].result = "failed"
            /\ Cardinality({k \in 1..Len(L) : L[k].result = "active"}) <= 1
            /\ attempts[i].pc = "done" =>
                 \A k \in 1..Len(L) : L[k].result # "active"

\* an attempt that went through all three strategies
C7_Witness ==
    \E i \in Attempts :
        /\ Len(attempts[i].strategies) = 3
        /\ attempts[i].strategies[3].result = "ok"

\* C8: when the fetch of strategy 1 is rejected or answers with a non-ok
\* status, or strategy 1 fails later, strategy 2 is run with the signed URL and
\* the derived filename of this attempt, without a second storage call, and the
\* attempt reports success when strategy 2 does not throw.
C8_FallbackToStrategy2 ==
    \A i \in Attempts :
        LET L == attempts[i].strategies
        IN  (\/ attempts[i].fetchResult \in {"reject", "nonok"}
             \/ (Len(L) >= 1 /\ L[1].result = "failed")) =>
                /\ Len(L) >= 2
                /\ L[2].n = 2
                /\ L[2].url = L[1].url
                /\ L[2].url = attempts[i].signedUrl
                /\ L[2].name = L[1].name
                /\ L[2].name = DownloadFilename(product.title, product.file_url)
                /\ StorageCallsOf(i) = 1
                /\ L[2].result = "ok" =>
                     /\ attempts[i].pc = "done"
                     /\ Len(attempts[i].toasts) = 1
                     /\ IsSuccess(attempts[i].toasts[1])

\* a fetch answered with a non-ok status, recovered by strategy 2
C8_Witness ==
    \E i \in Attempts :
        /\ attempts[i].fetchResult = "nonok"
        /\ Len(attempts[i].strategies) = 2
        /\ attempts[i].strategies[2].result = "ok"

\* C9: every delivery request, automatic or "Download Again", has shown no
\* outcome while it is in flight and exactly one, a success or a failure, once
\* it has returned.
C9_ExactlyOneOutcome ==
    \A i \in Attempts :
        /\ Len(attempts[i].toasts) = IF attempts[i].pc = "done" THEN 1 ELSE 0
        /\ \A k \in 1..Len(attempts[i].toasts) :
             IsSuccess(attempts[i].toasts[k]) # IsFailure(attempts[i].toasts[k])

\* an automatic request that succeeded, followed by repeat requests of which
\* one failed and one succeeded
C9_Witness ==
    /\ Len(attempts) = 3
    /\ \A i \in Attempts : attempts[i].pc = "done"
    /\ attempts[1].trigger = "auto"
    /\ \E i \in {2, 3} : IsFailure(attempts[i].toasts[1])
    /\ \E i \in {2, 3} : IsSuccess(attempts[i].toasts[1])

\* "Download Again" can be pressed
RetryPossible == mounted /\ DownloadAgainRendered(Cur)

\* attempt i returns with a failure in this step
FailsNow(i) ==
    /\ i <= Len(attempts')
    /\ attempts'[i].pc = "done"
    /\ IsFailure(attempts'[i].toasts[1])
    /\ (i > Len(attempts) \/ attempts[i].pc # "done")

\* C10: every terminal failure leaves "delivery completed" not set and leaves
\* a manual retry possible, for the automatic attempt and for a "Download
\* Again" attempt after an earlier success.
C10_FailureLeavesRetryable ==
    [][\A i \in 1..MaxAttempts :
          FailsNow(i) /\ mounted' => ~downloadComplete' /\ RetryPossible']_vars


\* C11: every delivery attempt made with a file reference asks the storage
\* collaborator once, for the object named by the reference: the calls are as
\* many as the attempts, no two attempts use the same signed URL, and after a
\* successful "Download Again" attempt downloadComplete is true.
C11_FreshLinkPerAttempt ==
    (product.has_file_url /\ product.file_url # <<>>) =>
        /\ Len(storageCalls) = Len(attempts)
        /\ \A i \in Attempts :
            /\ storageCalls[i].attempt = i
            /\ storageCalls[i].bucket = "product-files"
            /\ storageCalls[i].expiresIn = 3600
            /\ attempts[i].issuance = "url" => attempts[i].signedUrl # 0
            /\ \A j \in Attempts :
                 (i # j /\ attempts[i].signedUrl # 0) =>
                     attempts[i].signedUrl # attempts[j].signedUrl
            /\ \A k \in 1..Len(attempts[i].strategies) :
                 attempts[i].strategies[k].url = attempts[i].signedUrl
            /\ (/\ attempts[i].trigger = "manual"
                /\ attempts[i].pc = "done"
                /\ IsSuccess(attempts[i].toasts[1])) => downloadComplete

\* two completed attempts, the second by "Download Again", each with a signed
\* URL of its own
C11_Witness ==
    /\ Len(attempts) >= 2
    /\ Len(storageCalls) >= 2
    /\ attempts[1].pc = "done"
    /\ attempts[2].pc = "done"
    /\ attempts[2].trigger = "manual"
    /\ IsSuccess(attempts[2].toasts[1])
    /\ attempts[1].signedUrl # 0
    /\ attempts[2].signedUrl # 0
    /\ downloadComplete

\* strategy k of attempt i was run and failed
StrategyFailed(i, k) ==
    /\ Len(attempts[i].strategies) >= k
    /\ attempts[i].strategies[k].result = "failed"

\* the reasons a failure notification can carry, apart from an exception of
\* strategy 3
TerminalReasons ==
    {"No file available for download", "Unable to create secure download link"}
    \cup {"Storage error: " \o m : m \in StorageErrorMessages}

Settles(i) ==
    \/ \E res \in StorageResults :
        /\ attempts[i].pc = "issuing"
        /\ Set(Render(Cur, OnSignedUrl(Cur, i, res)))
    \/ \E r \in FetchResults, fb \in FallbackResults :
        /\ attempts[i].pc = "fetching"
        /\ Set(Render(Cur, OnFetch(Cur, i, r, fb)))
    \/ \E r \in BlobResults, fb \in FallbackResults :
        /\ attempts[i].pc = "blob"
        /\ Set(Render(Cur, OnBlob(Cur, i, r, fb)))

\* C15: close() cancels the countdown timer only. The step that closes the
\* presentation leaves every delivery attempt as it was; an attempt in flight
\* can still go on after the close, and one that returned after the close has
\* shown its one outcome.
C15_CloseLeavesAttemptsRunning ==
    /\ [][(mounted /\ ~mounted') =>
            /\ attempts' = attempts
            /\ storageCalls' = storageCalls]_vars
    /\ [](\A i \in 1..MaxAttempts :
            (~mounted /\ i <= Len(attempts)) =>
                IF attempts[i].pc = "done"
                THEN Len(attempts[i].toasts) = 1
                ELSE ENABLED Settles(i))

\* the automatic attempt went through the whole cascade and reported success
\* after the presentation was closed: the closed component no longer took the
\* setDownloadComplete(true)
C15_Witness ==
    /\ ~mounted
    /\ ~downloadComplete
    /\ Len(attempts) = 1
    /\ attempts[1].pc = "done"
    /\ Len(attempts[1].strategies) = 3
    /\ IsSuccess(attempts[1].toasts[1])

\* C16: at most one delivery attempt is in flight at any time.
C16_OneAttemptInFlight ==
    Cardinality({i \in Attempts : attempts[i].pc # "done"}) <= 1

\* C17: if the presentation is never closed, the countdown reaches 0 and a
\* delivery attempt is started; with the storage call, the fetch and the body
\* read settling, that attempt returns with its outcome and isDownloading is
\* false again.
C17_CountdownAndAttemptComplete ==
    ([]mounted) =>
        /\ <>(countdown = 0 /\ attempts # <<>>)
        /\ <>(/\ attempts # <<>>
              /\ attempts[1].pc = "done"
              /\ Len(attempts[1].toasts) = 1
              /\ ~isDownloading)

\* the automatic attempt of a presentation that is still open has returned
\* after a fetch
C17_Witness ==
    /\ mounted
    /\ countdown = 0
    /\ ~isDownloading
    /\ Len(attempts) = 1
    /\ attempts[1].pc = "done"
    /\ attempts[1].fetchResult # "none"

\* C18: the object URL of strategy 1 is not cleaned up in the step that
\* triggers the save: that step leaves it live, only after a successful
\* strategy 1, and the deferred cleanup revokes it later, exactly once, also
\* when the presentation is closed or other attempts start in between.
C18_DeferredCleanupOnce ==
    /\ [][\A i \in 1..MaxLiveAttempts :
            (/\ i <= Len(attempts)
             /\ attempts[i].objectUrl = "none"
             /\ attempts'[i].objectUrl # "none") =>
                /\ attempts'[i].objectUrl = "live"
                /\ attempts'[i].revokes = 0
                /\ attempts'[i].strategies[1].result = "ok"]_vars
    /\ [](\A i \in Attempts :
            /\ attempts[i].revokes = IF attempts[i].objectUrl = "revoked" THEN 1 ELSE 0
            /\ (attempts[i].strategies # <<>>
                /\ attempts[i].strategies[1].result = "ok") =>
                   attempts[i].objectUrl # "none")
    /\ \A i \in 1..MaxLiveAttempts :
          (i <= Len(attempts) /\ attempts[i].objectUrl = "live")
              ~> (/\ i <= Len(attempts)
                  /\ attempts[i].objectUrl = "revoked"
                  /\ attempts[i].revokes = 1)

\* an object URL revoked after the presentation was closed while a later
\* attempt was running
C18_Witness ==
    /\ ~mounted
    /\ Len(attempts) >= 2
    /\ attempts[1].objectUrl = "revoked"
    /\ attempts[1].revokes = 1
    /\ attempts[2].pc # "done"

\* the product has a file reference that startDownload accepts
HasFileRef == product.has_file_url /\ product.file_url # <<>>

Suffixes(s) == {SubSeq(s, k, Len(s)) : k \in 1..(Len(s) + 1)}

\* the part of s after its last sep, all of s when it holds none
AfterLast(s, sep) ==
    CHOOSE b \in Suffixes(s) :
        /\ sep \notin Range(b)
        /\ Len(b) = Len(s) \/ s[Len(s) - Len(b)] = sep

\* '.' and the part after the last '.', or ".zip" when there is no '.'
ExtensionOf(b) ==
    IF "." \in Range(b)
    THEN <<".">> \o AfterLast(b, ".")
    ELSE <<".", "z", "i", "p">>

\* C13: the derived filename is built from the trimmed title: a title with
\* leading or trailing whitespace gives a name without a leading or trailing
\* underscore, and a file reference without extension gets ".zip"; the title
\* "  multi   space  name" with file reference "x" gives
\* "multi_space_name.zip".
C13_TitleTrimmed ==
    \A i \in Attempts :
        LET t == product.title
            n == attempts[i].downloadFilename
            stem == SubSeq(n, 1, Len(n) - 4)
        IN  HasFileRef =>
              /\ (t = TitleMultiSpace /\ product.file_url = RefX) =>
                    n = <<"m", "u", "l", "t", "i", "_", "s", "p", "a", "c", "e",
                          "_", "n", "a", "m", "e", ".", "z", "i", "p">>
              /\ (/\ t # <<>>
                  /\ t[1] \in Whitespace \/ t[Len(t)] \in Whitespace
                  /\ "." \notin Range(product.file_url)
                  /\ "/" \notin Range(product.file_url)) =>
                    /\ Len(n) >= 4
                    /\ SubSeq(n, Len(n) - 3, Len(n)) = <<".", "z", "i", "p">>
                    /\ stem = <<>> \/ (stem[1] # "_" /\ stem[Len(stem)] # "_")

\* C14 as claimed: the derived filename is the sanitized title followed by the
\* extension of the segment of the file reference after its last '/'.
C14_ExtensionOfLastSegment ==
    \A i \in Attempts :
        HasFileRef =>
            attempts[i].downloadFilename =
                SanitizedTitle(product.title)
                    \o ExtensionOf(AfterLast(product.file_url, "/"))

\* C14: the derived filename is a function of title and file reference: the
\* sanitized title followed by the extension ('.' and the part after the last
\* '.', or ".zip" without a '.') of the segment after the last '/' of the file
\* reference, or of the whole file reference when that segment is empty; the
\* title "My Cool App!" with file reference "abc123.zip" gives
\* "My_Cool_App.zip".
C14_DerivedFilename ==
    \A i \in Attempts :
        LET f == product.file_url
            base == IF AfterLast(f, "/") # <<>> THEN AfterLast(f, "/") ELSE f
        IN  HasFileRef =>
              /\ attempts[i].downloadFilename =
                    SanitizedTitle(product.title) \o ExtensionOf(base)
              /\ (product.title = TitleCoolApp /\ f = RefAbc123Zip) =>
                    attempts[i].downloadFilename =
                        <<"M", "y", "_", "C", "o", "o", "l", "_", "A", "p", "p",
                          ".", "z", "i", "p">>

\* a delivery attempt for a file reference that ends in '/' and holds a '.'
C14_Witness ==
    /\ Len(attempts) = 1
    /\ HasFileRef
    /\ product.file_url[Len(product.file_url)] = "/"
    /\ "." \in Range(product.file_url)
    /\ attempts[1].pc = "issuing"

\* C19: the object name under which the upload form stored the product file
\* in 'product-files' (sanitized title, '.', the part of the file name after
\* its last '.') is the object name every delivery attempt asks a signed URL
\* for, in the same bucket; the public URL is the bucket's base URL, '/', and
\* the object name, and the file name holds no '/'.
C19_UploadedNameIsRequestedName ==
    (upload.hasFile /\ upload.phase # "form") =>
        /\ upload.bucket = "product-files"
        /\ upload.storedName =
              SanitizedTitle(upload.title) \o <<".">> \o AfterLast(upload.fileName, ".")
        /\ Len(storageCalls) = Len(attempts)
        /\ \A i \in Attempts :
              /\ storageCalls[i].bucket = upload.bucket
              /\ storageCalls[i].path = upload.storedName

\* the file of a title with a '/' and a space in it was uploaded, and the
\* first delivery attempt has asked for its signed URL
C19_Witness ==
    /\ upload.hasFile
    /\ "/" \in Range(upload.title)
    /\ " " \in Range(upload.title)
    /\ "." \in Range(upload.fileName)
    /\ Len(attempts) = 1
    /\ Len(storageCalls) = 1
=============================================================================
